---- MODULE Spec2Model ----
(***************************************************************************)
(* Model of transform.js (akaoio/geo): the Country Catalog Builder         *)
(* (createCountryFiles), the Level Classifier (getAdminLevel), the Parent  *)
(* Resolver (determineParent, determineParentForLocation) and the          *)
(* Hierarchy Builder (processCountryZip) run by main over the Node Store   *)
(* (one JSON file per geoname id in data/).                                *)
(*                                                                         *)
(* Geoname ids are numeric strings in the program; they are modelled by    *)
(* their numeric value (1, 2, ...).  JavaScript null is NULL.  Admin       *)
(* codes, feature codes and iso codes are strings, and the composite keys  *)
(* of the Admin-Code Index are built by string concatenation as the code   *)
(* builds them.                                                            *)
(*                                                                         *)
(* The lines of a place file are taken as parsed records (parseGeonamesLine*)
(* skips the others); file system and archive errors other than a missing  *)
(* archive or data entry are left out.  Every await of processCountryZip   *)
(* is a step: one line of the first pass, one location file of the second  *)
(* pass, one parent file of the third pass.                                *)
(***************************************************************************)
EXTENDS Integers, Sequences, FiniteSets, TLC

VARIABLES
    pc,                    \* position of main / processCountryZip
    manifest,              \* data/countries.json
    byCode,                \* data/{iso}.json : iso -> {id, name}
    store,                 \* data/{geonameid}.json : id -> node
    ci,                    \* index of the country of the current loop iteration
    allLocations,          \* processCountryZip: allLocations
    locationsByAdminCode,  \* processCountryZip: locationsByAdminCode
    childrenMap,           \* processCountryZip: childrenMap
    k,                     \* second pass: number of locations already written
    attached,              \* third pass: parent ids already handled
    schedule,              \* the countries main iterates over (indices of Countries)
    log,                   \* history: outcome of each finished processCountryZip call
    snap,                  \* history: the store when the current call began
    firstRun,              \* history: allLocations and final store of the previous call
    resolved,              \* history: last call of determineParentForLocation
    nread                  \* history: place records read so far in the whole run

vars == << pc, manifest, byCode, store, ci, allLocations, locationsByAdminCode,
           childrenMap, k, attached, schedule, log, snap, firstRun, resolved,
           nread >>

----------------------------------------------------------------------------
(* Bounds *)

\* total number of place records read over the whole run
MaxRecs == 3

\* the same, in a run that processes a country twice
MaxRerunRecs == 2

\* JavaScript null
NULL == 0

\* result of parseCountryInfo: the rows of countryInfo.txt, in row order
Countries ==
    << [iso |-> "AA", iso3 |-> "AAA", name |-> "Aland", capital |-> "Acap",
        area |-> "10", population |-> "100", continent |-> "EU",
        languages |-> "aa", geonameid |-> 1],
       [iso |-> "BB", iso3 |-> "BBB", name |-> "Bland", capital |-> "Bcap",
        area |-> "20", population |-> "200", continent |-> "AS",
        languages |-> "bb", geonameid |-> 4] >>

\* geoname ids occurring in the place file of country i: the country's own
\* id and ids of its places (ids are unique across countries)
FileIds(i) == IF i = 1 THEN {1, 2, 3} ELSE {4, 5}

----------------------------------------------------------------------------
(* Feature code to level mapping *)

FEATURE_LEVELS ==
    ("PCLI" :> 0) @@ ("ADM1" :> 1) @@ ("ADM2" :> 2) @@
    ("ADM3" :> 3) @@ ("ADM4" :> 4) @@ ("ADM5" :> 5)

\* FEATURE_LEVELS[location.featureCode] !== undefined
IsAdm(location) == location.featureCode \in DOMAIN FEATURE_LEVELS

\* truthiness of a string field
Populated(code) == code # ""

\* the template strings `${countryCode}.${admin1Code}...`
Key1(l) == l.countryCode \o "." \o l.admin1Code
Key2(l) == Key1(l) \o "." \o l.admin2Code
Key3(l) == Key2(l) \o "." \o l.admin3Code
Key4(l) == Key3(l) \o "." \o l.admin4Code

\* if (locationsByAdminCode[key]) : the key is set (ids are non-empty strings)
Hit(index, key) == key \in DOMAIN index

getAdminLevel(location) ==
    IF IsAdm(location) THEN FEATURE_LEVELS[location.featureCode]
    ELSE IF Populated(location.admin4Code) THEN 5
    ELSE IF Populated(location.admin3Code) THEN 4
    ELSE IF Populated(location.admin2Code) THEN 3
    ELSE IF Populated(location.admin1Code) THEN 2
    ELSE 1

\* determineParent with a slip: a missing entry falls back to the nearest
\* shorter key present instead of the country
determineParentNearest(location, countryGeonameid, index) ==
    LET level == getAdminLevel(location) IN
    IF level = 0 THEN NULL
    ELSE IF level = 1 THEN countryGeonameid
    ELSE IF level >= 5 /\ Populated(location.admin1Code)
            /\ Populated(location.admin2Code) /\ Populated(location.admin3Code)
            /\ Populated(location.admin4Code) /\ Hit(index, Key4(location))
        THEN index[Key4(location)]
    ELSE IF level >= 4 /\ Populated(location.admin1Code)
            /\ Populated(location.admin2Code) /\ Populated(location.admin3Code)
            /\ Hit(index, Key3(location))
        THEN index[Key3(location)]
    ELSE IF level >= 3 /\ Populated(location.admin1Code)
            /\ Populated(location.admin2Code) /\ Hit(index, Key2(location))
        THEN index[Key2(location)]
    ELSE IF level >= 2 /\ Populated(location.admin1Code)
            /\ Hit(index, Key1(location))
        THEN index[Key1(location)]
    ELSE countryGeonameid

determineParent(location, countryGeonameid, index) ==
    LET level == getAdminLevel(location) IN
    IF level = 0 THEN NULL
    ELSE IF level = 1 THEN countryGeonameid
    ELSE IF level = 2 /\ Populated(location.admin1Code)
            /\ Hit(index, Key1(location))
        THEN index[Key1(location)]
    ELSE IF level = 3 /\ Populated(location.admin1Code)
            /\ Populated(location.admin2Code) /\ Hit(index, Key2(location))
        THEN index[Key2(location)]
    ELSE IF level = 4 /\ Populated(location.admin1Code)
            /\ Populated(location.admin2Code) /\ Populated(location.admin3Code)
            /\ Hit(index, Key3(location))
        THEN index[Key3(location)]
    ELSE IF level = 5 /\ Populated(location.admin1Code)
            /\ Populated(location.admin2Code) /\ Populated(location.admin3Code)
            /\ Populated(location.admin4Code) /\ Hit(index, Key4(location))
        THEN index[Key4(location)]
    ELSE countryGeonameid

determineParentForLocation(location, countryGeonameid, index) ==
    IF IsAdm(location) THEN determineParent(location, countryGeonameid, index)
    ELSE IF Populated(location.admin4Code) /\ Populated(location.admin3Code)
            /\ Populated(location.admin2Code) /\ Populated(location.admin1Code)
            /\ Hit(index, Key4(location))
        THEN index[Key4(location)]
    ELSE IF Populated(location.admin3Code) /\ Populated(location.admin2Code)
            /\ Populated(location.admin1Code) /\ Hit(index, Key3(location))
        THEN index[Key3(location)]
    ELSE IF Populated(location.admin2Code) /\ Populated(location.admin1Code)
            /\ Hit(index, Key2(location))
        THEN index[Key2(location)]
    ELSE IF Populated(location.admin1Code) /\ Hit(index, Key1(location))
        THEN index[Key1(location)]
    ELSE countryGeonameid

\* indexLocation with a slip: every division is indexed under its 1-segment key
indexLocationShallow(index, location) ==
    IF IsAdm(location) /\ getAdminLevel(location) \in 1..4
       /\ Populated(location.admin1Code)
    THEN [x \in DOMAIN index \cup {Key1(location)} |->
            IF x = Key1(location) THEN location.geonameid ELSE index[x]]
    ELSE index

\* first pass, body of the loop after allLocations.push: the index entry
\* the location adds
indexLocation(index, location) ==
    LET level == getAdminLevel(location)
        a1 == Populated(location.admin1Code)
        a2 == Populated(location.admin2Code)
        a3 == Populated(location.admin3Code)
        a4 == Populated(location.admin4Code)
        set(key) == [x \in DOMAIN index \cup {key} |->
                        IF x = key THEN location.geonameid ELSE index[x]]
    IN  IF ~IsAdm(location) THEN index
        ELSE IF level = 1 /\ a1 THEN set(Key1(location))
        ELSE IF level = 2 /\ a1 /\ a2 THEN set(Key2(location))
        ELSE IF level = 3 /\ a1 /\ a2 /\ a3 THEN set(Key3(location))
        ELSE IF level = 4 /\ a1 /\ a2 /\ a3 /\ a4 THEN set(Key4(location))
        ELSE index

----------------------------------------------------------------------------
(* Input: the lines of a place file (already tokenized, >= 19 fields) *)

Location(id, fc, cc, a1, a2, a3, a4) ==
    [geonameid |-> id, name |-> "place", latitude |-> "lat", longitude |-> "lon",
     featureCode |-> fc, countryCode |-> cc,
     admin1Code |-> a1, admin2Code |-> a2, admin3Code |-> a3, admin4Code |-> a4,
     population |-> "7"]

\* lines of the place file of country i: the record of the country itself
\* (an independent country PCLI, or a dependent territory PCLD) and records
\* of its divisions and places
FileLines(i) ==
    LET c == Countries[i] IN
    { Location(c.geonameid, fc, c.iso, "", "", "", "") : fc \in {"PCLI", "PCLD"} }
    \cup
    { Location(id, fc, c.iso, a[1], a[2], "", "") :
        id \in FileIds(i) \ {c.geonameid},
        fc \in {"ADM1", "ADM2", "PPL"},
        a \in {<< "", "" >>, << "A", "" >>, << "A", "B" >>} }

\* what existsSync(zipPath) and zipEntries.find(...) can give
Archives == {"absent", "noentry", "ok"}

----------------------------------------------------------------------------
(* Node Store records *)

\* createCountryFiles: data/{geonameid}.json
countryNode(country) ==
    [id |-> country.geonameid, parent |-> NULL, children |-> << >>,
     name |-> country.name, level |-> 0,
     iso |-> country.iso, iso3 |-> country.iso3, capital |-> country.capital,
     area |-> country.area, population |-> country.population,
     continent |-> country.continent, languages |-> country.languages]

\* processCountryZip, second pass: data/{geonameid}.json
locationNode(location, parent, level) ==
    [id |-> location.geonameid, parent |-> parent, children |-> << >>,
     name |-> location.name, level |-> level,
     latitude |-> location.latitude, longitude |-> location.longitude,
     population |-> location.population]

\* writeFile(path, ...): create or overwrite
put(st, id, node) == [x \in DOMAIN st \cup {id} |-> IF x = id THEN node ELSE st[x]]

\* pushChild with a slip: an id already in the parent's list is not pushed again
pushChildOnce(map, parent, id) ==
    IF parent = NULL THEN map
    ELSE IF parent \in DOMAIN map /\ \E j \in 1..Len(map[parent]) : map[parent][j] = id
    THEN map
    ELSE [x \in DOMAIN map \cup {parent} |->
            IF x = parent
            THEN (IF parent \in DOMAIN map THEN Append(map[parent], id) ELSE << id >>)
            ELSE map[x]]

\* second pass: if (parent) { childrenMap[parent].push(location.geonameid) }
pushChild(map, parent, id) ==
    IF parent = NULL THEN map
    ELSE [x \in DOMAIN map \cup {parent} |->
            IF x = parent
            THEN (IF parent \in DOMAIN map THEN Append(map[parent], id) ELSE << id >>)
            ELSE map[x]]

\* setChildren with a slip: the new ids are appended to the children on file
setChildrenAppend(parentData, childIds) ==
    [parentData EXCEPT !.children = parentData.children \o childIds]

\* third pass: parentData.children = childIds
setChildren(parentData, childIds) == [parentData EXCEPT !.children = childIds]

\* third pass: read, modify and write one parent file, if it exists
updateChildren(st, parentId, childIds) ==
    IF parentId \in DOMAIN st
    THEN put(st, parentId, setChildren(st[parentId], childIds))
    ELSE st

Min(S) == CHOOSE x \in S : \A y \in S : x <= y

\* Object.entries(childrenMap): integer-like keys in ascending order
nextEntry(map, done) == Min(DOMAIN map \ done)

Empty == [x \in {} |-> 0]

----------------------------------------------------------------------------
(* main *)

current == Countries[schedule[ci]]

InitLocals ==
    /\ allLocations = << >>
    /\ locationsByAdminCode = Empty
    /\ childrenMap = Empty
    /\ k = 0
    /\ attached = {}

ResetLocals ==
    /\ allLocations' = << >>
    /\ locationsByAdminCode' = Empty
    /\ childrenMap' = Empty
    /\ k' = 0
    /\ attached' = {}

Init ==
    /\ pc = "parse"
    /\ manifest = << >>
    /\ byCode = Empty
    /\ store = Empty
    /\ ci = 1
    /\ schedule = [i \in 1..Len(Countries) |-> i]
    /\ log = << >>
    /\ snap = Empty
    /\ firstRun = << >>
    /\ resolved = << >>
    /\ nread = 0
    /\ InitLocals

\* main steps 1 and 2: parseCountryInfo, saveCountriesList
SaveCountriesList ==
    /\ pc = "parse"
    /\ manifest' = [i \in 1..Len(Countries) |-> Countries[i].geonameid]
    /\ pc' = "create"
    /\ UNCHANGED << byCode, store, ci, allLocations, locationsByAdminCode,
                    childrenMap, k, attached, schedule, log, snap, firstRun,
                    resolved, nread >>

\* main step 3, one iteration of the loop of createCountryFiles
CreateCountryFile ==
    /\ pc = "create"
    /\ LET country == Countries[ci] IN
        /\ byCode' = [x \in DOMAIN byCode \cup {country.iso} |->
                        IF x = country.iso
                        THEN [id |-> country.geonameid, name |-> country.name]
                        ELSE byCode[x]]
        /\ store' = put(store, country.geonameid, countryNode(country))
    /\ IF ci < Len(Countries)
       THEN ci' = ci + 1 /\ pc' = "create"
       ELSE ci' = 1 /\ pc' = "loop"
    /\ UNCHANGED << manifest, allLocations, locationsByAdminCode, childrenMap,
                    k, attached, schedule, log, snap, firstRun, resolved,
                    nread >>

\* the call of processCountryZip that is about to start repeats the previous
\* one (same country, same archive bytes)
IsRerun == ci > 1 /\ ci <= Len(schedule) /\ schedule[ci] = schedule[ci - 1]

\* SkipCountry with a slip: the missing archive ends the whole run
SkipCountryAbort(archive) ==
    /\ pc = "loop"
    /\ ci <= Len(schedule)
    /\ archive \in {"absent", "noentry"}
    /\ snap' = store
    /\ pc' = "done"
    /\ UNCHANGED << manifest, byCode, store, ci, allLocations,
                    locationsByAdminCode, childrenMap, k, attached, schedule,
                    log, firstRun, resolved, nread >>

\* processCountryZip returns early: the archive is absent, or holds no data
\* entry.  main goes on to the next country.
SkipCountry(archive) ==
    /\ pc = "loop"
    /\ ci <= Len(schedule)
    /\ archive \in {"absent", "noentry"}
    /\ snap' = store
    /\ log' = Append(log, [country |-> schedule[ci], outcome |-> archive])
    /\ ci' = ci + 1
    /\ UNCHANGED << pc, manifest, byCode, store, allLocations,
                    locationsByAdminCode, childrenMap, k, attached, schedule,
                    firstRun, resolved, nread >>

\* processCountryZip finds the data entry and splits it into lines
OpenArchive ==
    /\ pc = "loop"
    /\ ci <= Len(schedule)
    /\ snap' = store
    /\ pc' = "pass1"
    /\ UNCHANGED << manifest, byCode, store, ci, allLocations,
                    locationsByAdminCode, childrenMap, k, attached, schedule,
                    log, firstRun, resolved, nread >>

\* first pass, one iteration: push the location, extend the admin code lookup
firstPass(location) ==
    /\ allLocations' = Append(allLocations, location)
    /\ locationsByAdminCode' = indexLocation(locationsByAdminCode, location)

\* the run processes some country twice in a row
Repeats == \E i \in 1..(Len(schedule) - 1) : schedule[i + 1] = schedule[i]

ReadLine ==
    /\ pc = "pass1"
    /\ ~IsRerun
    /\ nread < (IF Repeats THEN MaxRerunRecs ELSE MaxRecs)
    /\ \E location \in FileLines(schedule[ci]) : firstPass(location)
    /\ nread' = nread + 1
    /\ UNCHANGED << pc, manifest, byCode, store, ci, childrenMap, k, attached,
                    schedule, log, snap, firstRun, resolved >>

\* first pass, end of the lines
EndOfFile ==
    /\ pc = "pass1"
    /\ IsRerun => Len(allLocations) = Len(firstRun.file)
    /\ pc' = IF Len(allLocations) = 0 THEN "pass3" ELSE "pass2"
    /\ UNCHANGED << manifest, byCode, store, ci, allLocations,
                    locationsByAdminCode, childrenMap, k, attached, schedule,
                    log, snap, firstRun, resolved, nread >>

\* second pass, one iteration: level, parent, childrenMap, location file
PutLocation ==
    /\ pc = "pass2"
    /\ LET location == allLocations[k + 1]
           level == getAdminLevel(location)
           parent == determineParentForLocation(location, current.geonameid,
                                                locationsByAdminCode)
       IN  /\ childrenMap' = pushChild(childrenMap, parent, location.geonameid)
           /\ store' = put(store, location.geonameid,
                           locationNode(location, parent, level))
    /\ k' = k + 1
    /\ pc' = IF k + 1 = Len(allLocations) THEN "pass3" ELSE "pass2"
    /\ UNCHANGED << manifest, byCode, ci, allLocations, locationsByAdminCode,
                    attached, schedule, log, snap, firstRun, resolved, nread >>

\* third pass, one iteration: update the children array of one parent
AttachChildren ==
    /\ pc = "pass3"
    /\ attached # DOMAIN childrenMap
    /\ LET parentId == nextEntry(childrenMap, attached) IN
        /\ store' = updateChildren(store, parentId, childrenMap[parentId])
        /\ attached' = attached \cup {parentId}
    /\ UNCHANGED << pc, manifest, byCode, ci, allLocations,
                    locationsByAdminCode, childrenMap, k, schedule, log, snap,
                    firstRun, resolved, nread >>

\* processCountryZip returns; main goes on to the next country
FinishCountry ==
    /\ pc = "pass3"
    /\ attached = DOMAIN childrenMap
    /\ log' = Append(log, [country |-> schedule[ci], outcome |-> "processed"])
    /\ firstRun' = IF ci < Len(schedule) /\ schedule[ci + 1] = schedule[ci]
                   THEN [file |-> allLocations, store |-> store]
                   ELSE firstRun
    /\ ci' = ci + 1
    /\ pc' = "loop"
    /\ ResetLocals
    /\ UNCHANGED << manifest, byCode, store, schedule, snap, resolved, nread >>

\* main: the loop over the countries is over
Done ==
    /\ pc = "loop"
    /\ ci > Len(schedule)
    /\ pc' = "done"
    /\ UNCHANGED << manifest, byCode, store, ci, allLocations,
                    locationsByAdminCode, childrenMap, k, attached, schedule,
                    log, snap, firstRun, resolved, nread >>

Next ==
    \/ SaveCountriesList
    \/ CreateCountryFile
    \/ \E archive \in Archives \ {"ok"} : SkipCountry(archive)
    \/ OpenArchive
    \/ ReadLine
    \/ EndOfFile
    \/ PutLocation
    \/ AttachChildren
    \/ FinishCountry
    \/ Done

Spec == Init /\ [][Next]_vars

----------------------------------------------------------------------------
(* A country processed twice with the same archive bytes *)

RerunSchedules == { << 1, 1 >>, << 2, 2 >>, << 2, 1, 1 >>, << 1, 2, 2 >> }

InitRerun ==
    /\ pc = "parse"
    /\ manifest = << >>
    /\ byCode = Empty
    /\ store = Empty
    /\ ci = 1
    /\ schedule \in RerunSchedules
    /\ log = << >>
    /\ snap = Empty
    /\ firstRun = << >>
    /\ resolved = << >>
    /\ nread = 0
    /\ InitLocals

\* first pass of the repeated call: the same line as the first time
ReplayLine ==
    /\ pc = "pass1"
    /\ IsRerun
    /\ Len(allLocations) < Len(firstRun.file)
    /\ firstPass(firstRun.file[Len(allLocations) + 1])
    /\ UNCHANGED << pc, manifest, byCode, store, ci, childrenMap, k, attached,
                    schedule, log, snap, firstRun, resolved, nread >>

NextRerun ==
    \/ SaveCountriesList
    \/ CreateCountryFile
    \/ OpenArchive
    \/ ReadLine
    \/ ReplayLine
    \/ EndOfFile
    \/ PutLocation
    \/ AttachChildren
    \/ FinishCountry
    \/ Done

SpecRerun == InitRerun /\ [][NextRerun]_vars

----------------------------------------------------------------------------
(* The Parent Resolver on the Admin-Code Index of a file *)

\* number of lines the index is built from
MaxIndexed == 2

AllFeatureCodes == DOMAIN FEATURE_LEVELS \cup {"PPL"}

\* admin code chains of division records; "A.A" holds the character the
\* keys are joined with
Chains ==
    { << "", "", "", "" >>, << "A", "", "", "" >>, << "A.A", "", "", "" >>,
      << "A", "A", "", "" >>, << "A", "A", "A", "" >>, << "A", "A", "A", "A" >> }

IndexLines(id) ==
    { Location(id, fc, "AA", c[1], c[2], c[3], c[4]) :
        fc \in {"ADM1", "ADM2", "ADM3", "ADM4"}, c \in Chains }

ResolveLines ==
    { Location(9, fc, "AA", a1, a2, a3, a4) :
        fc \in AllFeatureCodes, a1 \in {"", "A", "A.A"},
        a2 \in {"", "A"}, a3 \in {"", "A"}, a4 \in {"", "A"} }

InitResolve ==
    /\ pc = "pass1"
    /\ manifest = << >>
    /\ byCode = Empty
    /\ store = Empty
    /\ ci = 1
    /\ schedule = << 1 >>
    /\ log = << >>
    /\ snap = Empty
    /\ firstRun = << >>
    /\ resolved = << >>
    /\ nread = 0
    /\ InitLocals

\* first pass, one iteration, on a division record
IndexLine ==
    /\ pc = "pass1"
    /\ Len(allLocations) < MaxIndexed
    /\ \E location \in IndexLines(Len(allLocations) + 2) : firstPass(location)
    /\ UNCHANGED << pc, manifest, byCode, store, ci, childrenMap, k, attached,
                    schedule, log, snap, firstRun, resolved, nread >>

\* second pass: the call of determineParentForLocation on one record
Resolve ==
    /\ pc = "pass1"
    /\ \E location \in ResolveLines :
        resolved' = [location |-> location,
                     level |-> getAdminLevel(location),
                     parent |-> determineParentForLocation(
                                    location, current.geonameid,
                                    locationsByAdminCode)]
    /\ pc' = "resolved"
    /\ UNCHANGED << manifest, byCode, store, ci, allLocations,
                    locationsByAdminCode, childrenMap, k, attached, schedule,
                    log, snap, firstRun, nread >>

NextResolve == IndexLine \/ Resolve

SpecResolve == InitResolve /\ [][NextResolve]_vars

----------------------------------------------------------------------------
(* Properties *)

CountryIds == { Countries[i].geonameid : i \in 1..Len(Countries) }

\* no call of processCountryZip is in progress and the catalog is written
Between == pc \in {"loop", "done"}

\* the nodes written for country i: the ids of its catalog row and place file
NodesOf(i) == FileIds(i) \cap DOMAIN store

RECURSIVE ReachesRoot(_, _)
ReachesRoot(id, hops) ==
    /\ id \in DOMAIN store
    /\ \/ store[id].level = 0
       \/ /\ hops > 0
          /\ store[id].parent # NULL
          /\ ReachesRoot(store[id].parent, hops - 1)

\* C1: once the catalog is built and whole countries are processed, every
\* non-null parent refers to an existing node, no node is its own parent and
\* the parent links of every node lead to a level-0 node in at most 5 hops.
C1_ParentChainsReachRoot ==
    Between =>
        \A id \in DOMAIN store :
            /\ store[id].parent # NULL => store[id].parent \in DOMAIN store
            /\ store[id].parent # id
            /\ ReachesRoot(id, 5)

\* C2: after a country has been fully processed, every node with a non-null
\* parent has a level strictly greater than the level of its parent's node.
C2_LevelAboveParentLevel ==
    Between =>
        \A id \in DOMAIN store :
            store[id].parent # NULL =>
                /\ store[id].parent \in DOMAIN store
                /\ store[id].level > store[store[id].parent].level

\* C3: after the whole run each country has exactly one node with level 0
\* and parent null, the one under the country's geoname id, and every other
\* node of the country has a non-null parent.
C3_OneRootPerCountry ==
    pc = "done" =>
        \A i \in 1..Len(Countries) :
            LET cid == Countries[i].geonameid IN
            /\ cid \in DOMAIN store
            /\ store[cid].level = 0
            /\ store[cid].parent = NULL
            /\ \A id \in NodesOf(i) \ {cid} :
                /\ store[id].parent # NULL
                /\ store[id].level # 0

\* C4: after the whole run the node of each country is the node the catalog
\* builder wrote (iso, iso3, capital, area, population, continent, languages
\* included) with only its children changed.
C4_CountryNodeKeepsAttributes ==
    pc = "done" =>
        \A i \in 1..Len(Countries) :
            LET cid == Countries[i].geonameid IN
            /\ cid \in DOMAIN store
            /\ store[cid] = [countryNode(Countries[i]) EXCEPT
                                !.children = store[cid].children]

\* C5: no step removes a node or changes the id, parent or level of a node
\* that exists.
C5_NodesKeepIdParentLevel ==
    [][\A id \in DOMAIN store :
            /\ id \in DOMAIN store'
            /\ store'[id].id = store[id].id
            /\ store'[id].parent = store[id].parent
            /\ store'[id].level = store[id].level]_vars

\* the call that has just returned repeated the call before it
RerunFinished ==
    /\ Between
    /\ ci > 2
    /\ schedule[ci - 1] = schedule[ci - 2]

\* C6: processing a country again with the same place records leaves every
\* node exactly as the first processing left it (all fields, children order
\* included).
C6_RerunReproducesNodes ==
    RerunFinished => store = firstRun.store

\* C6 witness: a repeated call has finished after an earlier country's run,
\* on a file with a record that has children attached
C6_Witness ==
    /\ RerunFinished
    /\ Len(schedule) = 3
    /\ Len(firstRun.file) = 2
    /\ \E id \in DOMAIN store \ CountryIds : store[id].children # << >>

\* C7: a country whose archive is absent or holds no data entry leaves the
\* store as it was and keeps its catalog node with empty children; the run
\* goes on: the calls follow the metadata order and at the end every country
\* has had its call.
C7_SkipLeavesStoreAndRunGoesOn ==
    /\ (Between /\ log # << >> /\ log[Len(log)].outcome \in {"absent", "noentry"})
            => store = snap
    /\ \A i \in 1..Len(log) :
        /\ log[i].country = schedule[i]
        /\ log[i].outcome \in {"absent", "noentry"} =>
            LET c == Countries[log[i].country] IN
            /\ c.geonameid \in DOMAIN store
            /\ store[c.geonameid] = countryNode(c)
    /\ Between => Len(log) = ci - 1
    /\ pc = "done" => Len(log) = Len(schedule)

\* C7 witness: the first country was skipped and the next one was processed
\* and wrote a place node
C7_Witness ==
    /\ pc = "done"
    /\ log[1].outcome = "absent"
    /\ log[2].outcome = "processed"
    /\ 5 \in DOMAIN store
    /\ store[1] = countryNode(Countries[1])

----------------------------------------------------------------------------
(* The Parent Resolver *)

AdminCodes(l) == << l.admin1Code, l.admin2Code, l.admin3Code, l.admin4Code >>

\* country.admin1. ... .admin(n)
RECURSIVE SegKey(_, _)
SegKey(l, n) ==
    IF n = 0 THEN l.countryCode ELSE SegKey(l, n - 1) \o "." \o AdminCodes(l)[n]

\* the key lengths of an ordinary place that have all codes populated and
\* are present in the index
Usable(l, index) ==
    { n \in 1..4 : /\ \A j \in 1..n : AdminCodes(l)[j] # ""
                   /\ SegKey(l, n) \in DOMAIN index }

Max(S) == CHOOSE x \in S : \A y \in S : x >= y

\* the result the specification gives
ExpectedParent(l, countryId, index) ==
    IF l.featureCode \in DOMAIN FEATURE_LEVELS
    THEN LET L == FEATURE_LEVELS[l.featureCode] IN
         IF L = 0 THEN NULL
         ELSE IF L = 1 THEN countryId
         ELSE IF SegKey(l, L - 1) \in DOMAIN index
              THEN index[SegKey(l, L - 1)]
              ELSE countryId
    ELSE IF Usable(l, index) # {}
         THEN index[SegKey(l, Max(Usable(l, index)))]
         ELSE countryId

\* an admin code that holds the "." the keys are joined with
HasDot(l) == \E j \in 1..4 : AdminCodes(l)[j] = "A.A"

\* the file the index was built from has a record with this id and level
FileHas(id, level) ==
    \E j \in 1..Len(allLocations) :
        /\ allLocations[j].geonameid = id
        /\ getAdminLevel(allLocations[j]) = level

C9_ResolverMatchesSpec ==
    pc = "resolved" =>
        resolved.parent = ExpectedParent(resolved.location, current.geonameid,
                                         locationsByAdminCode)

\* C9 witness: an ADM3 record whose 2-segment key is absent while its
\* 1-segment key is present resolved to the country
C9_Witness ==
    /\ pc = "resolved"
    /\ resolved.location.featureCode = "ADM3"
    /\ SegKey(resolved.location, 1) \in DOMAIN locationsByAdminCode
    /\ resolved.location.admin2Code # ""
    /\ SegKey(resolved.location, 2) \notin DOMAIN locationsByAdminCode
    /\ resolved.parent = current.geonameid

----------------------------------------------------------------------------
(* The Children Aggregator *)

ParentOf(location) ==
    determineParentForLocation(location, current.geonameid, locationsByAdminCode)

\* ids of the first n records of the file resolved to p, in file order
RECURSIVE ResolvedTo(_, _)
ResolvedTo(p, n) ==
    IF n = 0 THEN << >>
    ELSE IF ParentOf(allLocations[n]) = p
         THEN Append(ResolvedTo(p, n - 1), allLocations[n].geonameid)
         ELSE ResolvedTo(p, n - 1)

FileParents ==
    { ParentOf(allLocations[j]) : j \in 1..Len(allLocations) } \ {NULL}

\* the three passes of the current call are over
CountryFinished == pc = "pass3" /\ attached = DOMAIN childrenMap

\* C10: when a country is finished, every resolved parent exists and its
\* children are the ids of the records resolved to it, in file order, with
\* repeats kept; every other node of the country has no children.
C10_ChildrenAreResolvedRecords ==
    CountryFinished =>
        /\ \A p \in FileParents :
            /\ p \in DOMAIN store
            /\ store[p].children = ResolvedTo(p, Len(allLocations))
        /\ \A id \in NodesOf(schedule[ci]) \ FileParents :
            store[id].children = << >>

\* C10 witness: a node got three children out of ascending order, one id on
\* two lines
C10_Witness ==
    /\ CountryFinished
    /\ \E p \in DOMAIN store :
        /\ Len(store[p].children) = 3
        /\ store[p].children[1] = store[p].children[3]
        /\ store[p].children[1] > store[p].children[2]

====
